---- MODULE Spec2Model ----
(***************************************************************************)
(* Model of backend/app.py: the e-mail cleaning, document decoding and     *)
(* classification pipeline and the two request handlers built on it.       *)
(*                                                                         *)
(* A Python str is a sequence of one-character strings, a bytes object a   *)
(* sequence of integers 0..255.  A float is an integer number of           *)
(* hundredths (0.7 is 70).  The libraries the program calls (BeautifulSoup, *)
(* PyPDF2, pdfminer, the Gemini client, json.loads) are inputs: what they  *)
(* return or raise is chosen from small sets.                              *)
(***************************************************************************)
EXTENDS Integers, Sequences, FiniteSets, TLC

VARIABLES
    raw,        \* clean_email_text: the text given to the first pass
    soup,       \* what strip_html returns for raw (used when raw has markup)
    once,       \* clean_email_text(raw)
    twice,      \* clean_email_text(clean_email_text(raw))
    cpc,        \* position of the cleaning run: "start", "once", "twice"
    fname,      \* read_file_bytes_to_text: the filename
    fdata,      \* read_file_bytes_to_text: the bytes
    flib,       \* what PyPDF2 and pdfminer do with fdata
    fresult,    \* what read_file_bytes_to_text returned or raised
    fpc,        \* position of the decoding run: "start", "done"
    gen,        \* classify_with_gemini: what MODEL.generate_content does
    cresult,    \* what classify_with_gemini returned or raised
    kpc,        \* position of the classification run: "start", "done"
    sreq,       \* analyze: the request, [text, file]
    sgen,       \* analyze: what the model does when the classifier is called
    scontent,   \* analyze: the cleaned content
    scalls,     \* analyze: the calls of classify_with_gemini made so far
    sresp,      \* analyze: the response
    spc,        \* analyze: "start", "reading", "classifying", "done"
    breq,       \* analyze_batch: the request, [texts, files]
    bitems,     \* analyze_batch: items
    bi,         \* analyze_batch: position in the loop over files (1-based)
    bk,         \* analyze_batch: position in the loop over items (1-based)
    bresults,   \* analyze_batch: results
    boutcomes,  \* what each call of classify_with_gemini returned or raised
    breads,     \* the calls of f.read() made so far
    bresp,      \* analyze_batch: the response
    bpc         \* analyze_batch: "start", "files", "classify", "done"

cleanVars == <<raw, soup, once, twice, cpc>>
decodeVars == <<fname, fdata, flib, fresult, fpc>>
classifyVars == <<gen, cresult, kpc>>
singleVars == <<sreq, sgen, scontent, scalls, sresp, spc>>
batchVars == <<breq, bitems, bi, bk, bresults, boutcomes, breads, bresp, bpc>>

vars == <<raw, soup, once, twice, cpc, fname, fdata, flib, fresult, fpc,
          gen, cresult, kpc, sreq, sgen, scontent, scalls, sresp, spc,
          breq, bitems, bi, bk, bresults, boutcomes, breads, bresp, bpc>>

(***************************************************************************)
(* Characters and the str methods the program uses                         *)
(***************************************************************************)
\* the letters of the model, lower case and upper case at the same index
LowerCase == <<"a","b","c","d","e","f","g","h","i","j","k","l","m",
               "n","o","p","q","r","s","t","u","v","w","x","y","z",
               "ú","ç","õ","é">>
UpperCase == <<"A","B","C","D","E","F","G","H","I","J","K","L","M",
               "N","O","P","Q","R","S","T","U","V","W","X","Y","Z",
               "Ú","Ç","Õ","É">>
\* a letter whose upper case is outside Latin-1
OtherLetters == {"ÿ"}
Digits    == {"0","1","2","3","4","5","6","7","8","9"}

Range(s) == {s[i] : i \in 1..Len(s)}

\* str.isspace for one character
IsSpace(c) == c \in {" ", "\t", "\n", "\r"}

\* the characters str.splitlines breaks at
IsLineBreak(c) == c \in {"\n", "\r"}

\* the regex class \w
IsWord(c) ==
    c \in Range(LowerCase) \cup Range(UpperCase) \cup OtherLetters \cup Digits \cup {"_"}

\* str.lower for one character
LowerChar(c) ==
    IF \E i \in 1..Len(UpperCase) : UpperCase[i] = c
    THEN LowerCase[CHOOSE i \in 1..Len(UpperCase) : UpperCase[i] = c]
    ELSE c

\* str.lower
Lower(s) == [i \in 1..Len(s) |-> LowerChar(s[i])]

RECURSIVE LStrip(_)
LStrip(s) == IF s # <<>> /\ IsSpace(Head(s)) THEN LStrip(Tail(s)) ELSE s

RECURSIVE RStrip(_)
RStrip(s) ==
    IF s # <<>> /\ IsSpace(s[Len(s)]) THEN RStrip(SubSeq(s, 1, Len(s) - 1)) ELSE s

\* str.strip
Strip(s) == RStrip(LStrip(s))

\* s[i:].startswith(p)
StartsWithAt(s, i, p) ==
    /\ i + Len(p) - 1 <= Len(s)
    /\ \A k \in 1..Len(p) : s[i + k - 1] = p[k]

\* str.startswith
StartsWith(s, p) == StartsWithAt(s, 1, p)

\* str.endswith
EndsWith(s, p) == Len(p) <= Len(s) /\ StartsWithAt(s, Len(s) - Len(p) + 1, p)

\* p in s
Contains(s, p) == \E i \in 1..Len(s) : StartsWithAt(s, i, p)

\* str.splitlines
RECURSIVE SplitLines(_)
SplitLines(s) ==
    IF s = <<>> THEN <<>>
    ELSE IF \E i \in 1..Len(s) : IsLineBreak(s[i])
         THEN LET i == CHOOSE j \in 1..Len(s) :
                          /\ IsLineBreak(s[j])
                          /\ \A k \in 1..(j - 1) : ~IsLineBreak(s[k])
              IN  <<SubSeq(s, 1, i - 1)>> \o SplitLines(SubSeq(s, i + 1, Len(s)))
         ELSE <<s>>

\* " ".join(lines)
RECURSIVE JoinSpace(_)
JoinSpace(ls) ==
    IF ls = <<>> THEN <<>>
    ELSE IF Len(ls) = 1 THEN ls[1]
    ELSE ls[1] \o <<" ">> \o JoinSpace(Tail(ls))

(***************************************************************************)
(* Text normaliser (clean_email_text)                                      *)
(***************************************************************************)
HeaderLabels ==
    { <<"f","r","o","m">>, <<"d","e">>, <<"t","o">>, <<"p","a","r","a">>,
      <<"s","u","b","j","e","c","t">>, <<"a","s","s","u","n","t","o">>,
      <<"d","a","t","e">>, <<"d","a","t","a">>, <<"c","c">>, <<"b","c","c">>,
      <<"r","e","p","l","y","-","t","o">>,
      <<"m","e","s","s","a","g","e","-","i","d">>,
      <<"r","e","c","e","i","v","e","d">> }

\* the position of the first non-space character of s at or after i
RECURSIVE SkipSpaces(_, _)
SkipSpaces(s, i) == IF i <= Len(s) /\ IsSpace(s[i]) THEN SkipSpaces(s, i + 1) ELSE i

\* HEADER_RE.match(line): a label at the start, any whitespace, then a colon
HEADER_RE(line) ==
    LET low == Lower(line)
    IN  \E lab \in HeaderLabels :
            /\ StartsWith(low, lab)
            /\ LET j == SkipSpaces(line, Len(lab) + 1)
               IN  j <= Len(line) /\ line[j] = ":"

\* the markup test of clean_email_text
HasMarkup(text) ==
    LET low == Lower(text)
    IN  \/ Contains(low, <<"<","h","t","m","l">>)
        \/ Contains(low, <<"<","d","i","v">>)
        \/ Contains(low, <<"<","b","r">>)

\* the lines clean_email_text keeps
RECURSIVE KeepLines(_)
KeepLines(ls) ==
    IF ls = <<>> THEN <<>>
    ELSE LET line == Strip(Head(ls))
         IN  IF \/ line = <<>>
                \/ HEADER_RE(line)
                \/ StartsWith(line, <<">">>)
                \/ Len(line) < 3
             THEN KeepLines(Tail(ls))
             ELSE <<line>> \o KeepLines(Tail(ls))

\* the end of the run of non-space characters that starts at i (i - 1 if none)
RECURSIVE NonSpaceEnd(_, _)
NonSpaceEnd(s, i) ==
    IF i <= Len(s) /\ ~IsSpace(s[i]) THEN NonSpaceEnd(s, i + 1) ELSE i - 1

\* where a match of https?://\S+ that starts at i ends, 0 if there is none
UrlMatchEnd(s, i) ==
    LET after(p) == IF StartsWithAt(s, i, p) /\ NonSpaceEnd(s, i + Len(p)) >= i + Len(p)
                    THEN NonSpaceEnd(s, i + Len(p))
                    ELSE 0
        plain  == after(<<"h","t","t","p",":","/","/">>)
        secure == after(<<"h","t","t","p","s",":","/","/">>)
    IN  IF secure > 0 THEN secure ELSE plain

\* re.sub(r"https?://\S+", " ", text)
RECURSIVE RemoveUrlsFrom(_, _)
RemoveUrlsFrom(s, i) ==
    IF i > Len(s) THEN <<>>
    ELSE IF UrlMatchEnd(s, i) > 0
         THEN <<" ">> \o RemoveUrlsFrom(s, UrlMatchEnd(s, i) + 1)
         ELSE <<s[i]>> \o RemoveUrlsFrom(s, i + 1)

RemoveUrls(s) == RemoveUrlsFrom(s, 1)

\* the characters the noise filter keeps
KeptChar(c) ==
    IsWord(c) \/ IsSpace(c) \/ c \in {"-", ".", ",", "!", "?", ";", ":", "(", ")"}

\* re.sub(r"[^\w\s\-.,!?;:()]", " ", text)
RemoveNoise(s) == [i \in 1..Len(s) |-> IF KeptChar(s[i]) THEN s[i] ELSE " "]

\* the end of the run of whitespace that starts at i (i - 1 if none)
RECURSIVE SpaceEnd(_, _)
SpaceEnd(s, i) == IF i <= Len(s) /\ IsSpace(s[i]) THEN SpaceEnd(s, i + 1) ELSE i - 1

\* re.sub(r"\s{2,}", " ", text)
RECURSIVE CollapseFrom(_, _)
CollapseFrom(s, i) ==
    IF i > Len(s) THEN <<>>
    ELSE IF SpaceEnd(s, i) > i
         THEN <<" ">> \o CollapseFrom(s, SpaceEnd(s, i) + 1)
         ELSE <<s[i]>> \o CollapseFrom(s, i + 1)

CollapseSpaces(s) == CollapseFrom(s, 1)

MIN_CLEAN_LEN == 10

\* lines 140-143 with the final strip left out
SubstituteNoStrip(text) == CollapseSpaces(RemoveNoise(RemoveUrls(text)))

\* lines 140-143: the three substitutions and the final strip
Substitute(text) == Strip(CollapseSpaces(RemoveNoise(RemoveUrls(text))))

\* clean_email_text(raw); html is what strip_html(raw) returns
clean_email_text(text, html) ==
    IF text = <<>> THEN <<>>
    ELSE LET body  == IF HasMarkup(text) THEN html ELSE text
             lines == KeepLines(SplitLines(body))
         IN  IF lines = <<>> THEN <<>>
             ELSE LET out == Substitute(JoinSpace(lines))
                  IN  IF Len(out) < MIN_CLEAN_LEN THEN <<>> ELSE out

\* strip_html is not called: the text has no markup
NoSoup == <<>>

(***************************************************************************)
(* Document decoder (read_pdf, read_file_bytes_to_text)                    *)
(***************************************************************************)
DigitChars == <<"0","1","2","3","4","5","6","7","8","9">>

\* the character with code point cp, for the code points the inputs produce
Chr(cp) ==
    CASE cp \in 97..122 -> LowerCase[cp - 96]
      [] cp \in 65..90  -> UpperCase[cp - 64]
      [] cp \in 48..57  -> DigitChars[cp - 47]
      [] cp = 9   -> "\t"
      [] cp = 10  -> "\n"
      [] cp = 13  -> "\r"
      [] cp = 32  -> " "
      [] cp = 33  -> "!"
      [] cp = 35  -> "#"
      [] cp = 44  -> ","
      [] cp = 45  -> "-"
      [] cp = 46  -> "."
      [] cp = 58  -> ":"
      [] cp = 62  -> ">"
      [] cp = 233 -> "é"
      [] cp = 255 -> "ÿ"
      [] OTHER    -> "?"

\* the code point of a character of the table above
Ord(c) == CHOOSE cp \in 0..255 : Chr(cp) = c /\ (c = "?" => cp = 63)

\* str.encode("utf-8") for ASCII text: how the sample files are written
AsciiBytes(s) == [i \in 1..Len(s) |-> Ord(s[i])]

\* bytes.decode("utf-8", errors="ignore") for one- and two-byte sequences:
\* an ASCII byte is one character, a lead byte 0xC2..0xDF with a continuation
\* byte 0x80..0xBF after it is one character, every other byte is dropped
DecodeUtf8Ignore(bs) ==
    LET TwoByte(i) == bs[i] \in 194..223 /\ i < Len(bs) /\ bs[i + 1] \in 128..191
        Starts(i)  == bs[i] < 128 \/ TwoByte(i)
        starts     == SelectSeq([i \in 1..Len(bs) |-> i], Starts)
    IN  [k \in 1..Len(starts) |->
            IF bs[starts[k]] < 128
            THEN Chr(bs[starts[k]])
            ELSE Chr((bs[starts[k]] - 192) * 64 + (bs[starts[k] + 1] - 128))]

\* bytes.decode("latin-1", errors="ignore"): one character per byte
DecodeLatin1(bs) == [i \in 1..Len(bs) |-> Chr(bs[i])]

None == [none |-> TRUE]
Some(t) == [none |-> FALSE, text |-> t]

\* x or ""
OrEmpty(x) == IF x.none THEN <<>> ELSE x.text

\* "".join((page.extract_text() or "") for page in reader.pages)
RECURSIVE JoinPages(_)
JoinPages(pages) ==
    IF pages = <<>> THEN <<>> ELSE OrEmpty(Head(pages)) \o JoinPages(Tail(pages))

PDF_MIN_TEXT == 100

Returned(t) == [raised |-> FALSE, value |-> t]
Raised(e) == [raised |-> TRUE, error |-> e]

\* lines 174, 182: text_content and len(text_content.strip()) > 100
RawTextAccepted(t) == t # <<>> /\ Len(Strip(t)) > PDF_MIN_TEXT

\* read_pdf where an exception of the first extractor ends the chain
read_pdf_stop_on_throw(data, lib) ==
    IF lib.pypdf.threw THEN Returned(<<>>)
    ELSE IF Strip(JoinPages(lib.pypdf.pages)) # <<>>
         THEN Returned(JoinPages(lib.pypdf.pages))
    ELSE IF ~lib.pdfminer.threw /\ Strip(OrEmpty(lib.pdfminer.out)) # <<>>
         THEN Returned(OrEmpty(lib.pdfminer.out))
    ELSE IF RawTextAccepted(DecodeUtf8Ignore(data))
         THEN Returned(DecodeUtf8Ignore(data))
    ELSE IF RawTextAccepted(DecodeLatin1(data))
         THEN Returned(DecodeLatin1(data))
    ELSE Returned(<<>>)

\* read_pdf(data); lib is what the two PDF libraries do with data.  Every
\* try block catches Exception, so a strategy that throws only hands over to
\* the next one.
read_pdf(data, lib) ==
    IF ~lib.pypdf.threw /\ Strip(JoinPages(lib.pypdf.pages)) # <<>>
    THEN Returned(JoinPages(lib.pypdf.pages))
    ELSE IF ~lib.pdfminer.threw /\ Strip(OrEmpty(lib.pdfminer.out)) # <<>>
         THEN Returned(OrEmpty(lib.pdfminer.out))
    ELSE IF RawTextAccepted(DecodeUtf8Ignore(data))
         THEN Returned(DecodeUtf8Ignore(data))
    ELSE IF RawTextAccepted(DecodeLatin1(data))
         THEN Returned(DecodeLatin1(data))
    ELSE Returned(<<>>)

DotPdf == <<".","p","d","f">>
DotTxt == <<".","t","x","t">>

\* read_file_bytes_to_text(filename, data)
read_file_bytes_to_text(filename, data, lib) ==
    IF EndsWith(Lower(filename), DotPdf)
    THEN read_pdf(data, lib)
    ELSE Returned(DecodeUtf8Ignore(data))

(***************************************************************************)
(* Classification client (normalize_intent, parse_json_strict,             *)
(* classify_with_gemini)                                                   *)
(***************************************************************************)
\* JSON values as json.loads builds them
JStr(t)  == [t |-> "str", s |-> t]
JNum(x)  == [t |-> "num", n |-> x]
JBool(x) == [t |-> "bool", b |-> x]
JList(x) == [t |-> "list", empty |-> x]
JObj(x)  == [t |-> "obj", empty |-> x]
JNull    == [t |-> "null"]
\* a key the object does not have
Absent   == [t |-> "absent"]

\* dict.get(key, default)
Get(data, key, default) == IF data[key] = Absent THEN default ELSE data[key]

\* bool(v)
Truthy(v) ==
    CASE v.t = "str"  -> v.s # <<>>
      [] v.t = "num"  -> v.n # 0
      [] v.t = "bool" -> v.b
      [] v.t = "list" -> ~v.empty
      [] v.t = "obj"  -> ~v.empty
      [] OTHER        -> FALSE

\* whether hash(v) succeeds
Hashable(v) == v.t \notin {"list", "obj"}

S_Produtivo   == <<"P","r","o","d","u","t","i","v","o">>
S_Improdutivo == <<"I","m","p","r","o","d","u","t","i","v","o">>
S_status        == <<"s","t","a","t","u","s">>
S_anexo         == <<"a","n","e","x","o">>
S_suporte       == <<"s","u","p","o","r","t","e">>
S_duvida        == <<"d","ú","v","i","d","a">>
S_felicitacoes  == <<"f","e","l","i","c","i","t","a","ç","õ","e","s">>
S_agradecimento == <<"a","g","r","a","d","e","c","i","m","e","n","t","o">>
S_outros        == <<"o","u","t","r","o","s">>

Categories == {S_Produtivo, S_Improdutivo}
Intents ==
    {S_status, S_anexo, S_suporte, S_duvida, S_felicitacoes, S_agradecimento, S_outros}

\* the mapping of normalize_intent
IntentMapping(v) ==
    CASE v = <<"d","u","v","i","d","a">> -> S_duvida
      [] v = <<"a","g","r","a","d","e","c","i","m","e","n","t","o","s">> -> S_agradecimento
      [] v = <<"f","e","l","i","c","i","t","a","c","a","o">> -> S_felicitacoes
      [] v = <<"f","e","l","i","c","i","t","a","c","o","e","s">> -> S_felicitacoes
      [] OTHER -> v

\* normalize_intent(v): v is whatever JSON value the model gave
normalize_intent(v) ==
    IF ~Truthy(v) THEN Returned(S_outros)
    ELSE IF v.t # "str" THEN Raised("AttributeError")
    ELSE LET m == IntentMapping(Lower(Strip(v.s)))
         IN  Returned(IF m \in Intents THEN m ELSE S_outros)

\* str.find("{") and str.rfind("}"), 1-based, 0 for not found
Find(text, c) ==
    IF \E i \in 1..Len(text) : text[i] = c
    THEN CHOOSE i \in 1..Len(text) : text[i] = c /\ \A j \in 1..(i - 1) : text[j] # c
    ELSE 0
RFind(text, c) ==
    IF \E i \in 1..Len(text) : text[i] = c
    THEN CHOOSE i \in 1..Len(text) : text[i] = c /\ \A j \in (i + 1)..Len(text) : text[j] # c
    ELSE 0

\* The model's text is a sequence of tokens: "{", "}", "m" for a well-formed
\* list of members, "w" for any other text.  json.loads accepts "{" "m" "}"
\* and "{" "}".
EmptyObject ==
    [category |-> Absent, intent |-> Absent, confidence |-> Absent,
     suggested_reply |-> Absent]

\* json.loads(slice); members is the object the token "m" stands for
json_loads(slice, members) ==
    IF slice = <<"{", "m", "}">> THEN Returned(members)
    ELSE IF slice = <<"{", "}">> THEN Returned(EmptyObject)
    ELSE Raised("JSONDecodeError")

\* parse_json_strict(text)
parse_json_strict(text, members) ==
    LET start == Find(text, "{")
        end   == RFind(text, "}")
    IN  IF start = 0 \/ end = 0 \/ end <= start
        THEN Raised("ValueError")
        ELSE json_loads(SubSeq(text, start, end), members)

DEFAULT_CONFIDENCE == 70

IsDigit(c) == c \in Digits
DigitValue(c) == CHOOSE d \in 0..9 : DigitChars[d + 1] = c

\* float(s) for a str of the form d.d or d.dd, in hundredths; every other
\* str of the model is no number
ParseFloat(s) ==
    LET t == Strip(s)
    IN  IF Len(t) \in {3, 4} /\ IsDigit(t[1]) /\ t[2] = "." /\ \A i \in 3..Len(t) : IsDigit(t[i])
        THEN Returned(100 * DigitValue(t[1]) + 10 * DigitValue(t[3])
                        + (IF Len(t) = 4 THEN DigitValue(t[4]) ELSE 0))
        ELSE Raised("ValueError")

\* float(v)
ToFloat(v) ==
    CASE v.t = "num"  -> Returned(v.n)
      [] v.t = "bool" -> Returned(IF v.b THEN 100 ELSE 0)
      [] v.t = "str"  -> ParseFloat(v.s)
      [] OTHER        -> Raised("TypeError")

\* lines 243-244
NormCategory(data) ==
    LET c == Get(data, "category", JStr(S_Improdutivo))
    IN  IF ~Hashable(c) THEN Raised("TypeError")
        ELSE IF c.t = "str" /\ c.s \in Categories THEN Returned(c.s)
        ELSE Returned(S_Improdutivo)

DEFAULT_REPLY == <<"O","b","r","i","g","a","d","o"," ","p","e","l","a"," ","m","e","n","s","a","g","e","m","!">>

\* line 247
NormReply(data) ==
    LET r == Get(data, "suggested_reply", JNull)
    IN  IF ~Truthy(r) THEN Returned(DEFAULT_REPLY)
        ELSE IF r.t # "str" THEN Raised("AttributeError")
        ELSE Returned(IF Strip(r.s) = <<>> THEN DEFAULT_REPLY ELSE Strip(r.s))

\* lines 243-249: the four fields in the order the code evaluates them; the
\* first exception ends the call
Normalize(data) ==
    LET category == NormCategory(data)
        intent   == normalize_intent(Get(data, "intent", JNull))
        conf     == ToFloat(Get(data, "confidence", JNum(DEFAULT_CONFIDENCE)))
        reply    == NormReply(data)
    IN  IF category.raised THEN category
        ELSE IF intent.raised THEN intent
        ELSE IF conf.raised THEN conf
        ELSE IF reply.raised THEN reply
        ELSE Returned([category |-> category.value,
                       confidence |-> conf.value,
                       suggested_reply |-> reply.value,
                       metadata |-> [intent |-> intent.value]])

\* lines 237-240: the text of the response.  resp.text and, when that is
\* empty, resp.candidates[0].content.parts[0].text are None, a text, or an
\* access that raises.
OutputText(resp) ==
    IF resp.text.kind = "raises" THEN Raised("ValueError")
    ELSE IF resp.text.kind = "text" /\ resp.text.tokens # <<>> THEN Returned(resp.text)
    ELSE IF resp.part.kind = "raises" THEN Raised("RuntimeError")
    ELSE Returned(resp.part)

\* classify_with_gemini(email_text); resp is what MODEL.generate_content does
\* for the prompt built from email_text
classify_with_gemini(resp) ==
    IF resp.call = "raises" THEN Raised("ModelError")
    ELSE LET out == OutputText(resp)
         IN  IF out.raised THEN out
             ELSE IF out.value.kind = "none" THEN Raised("AttributeError")
             ELSE LET data == parse_json_strict(out.value.tokens, resp.members)
                  IN  IF data.raised THEN data ELSE Normalize(data.value)

(***************************************************************************)
(* The state of a flow that is not running                                 *)
(***************************************************************************)
CleanIdle ==
    raw = <<>> /\ soup = <<>> /\ once = <<>> /\ twice = <<>> /\ cpc = "idle"

DecodeIdle ==
    /\ fname = <<>> /\ fdata = <<>> /\ fresult = Returned(<<>>) /\ fpc = "idle"
    /\ flib = [pypdf |-> [threw |-> TRUE], pdfminer |-> [threw |-> TRUE]]

\* a response of the model with the given text
TextResponse(tokens, members) ==
    [call |-> "ok", text |-> [kind |-> "text", tokens |-> tokens],
     part |-> [kind |-> "raises"], members |-> members]

\* the first few-shot answer
GoodMembers ==
    [category |-> JStr(S_Produtivo), intent |-> JStr(S_status),
     confidence |-> JNum(93), suggested_reply |-> JStr(<<"V","a","m","o","s"," ","v","e","r","i","f","i","c","a","r",".">>)]

CallRaises ==
    [call |-> "raises", text |-> [kind |-> "none"], part |-> [kind |-> "raises"],
     members |-> EmptyObject]

ClassifyIdle ==
    gen = CallRaises /\ cresult = Raised("idle") /\ kpc = "idle"

\* an uploaded file: its filename (None or a str), its bytes, what the PDF
\* libraries do with them, and whether reading it raises
UploadFile(name, data, lib, readRaises) ==
    [filename |-> name, data |-> data, lib |-> lib, readRaises |-> readRaises]

NoPdfLib == [pypdf |-> [threw |-> TRUE], pdfminer |-> [threw |-> TRUE]]

NoResponse == [status |-> 0]

SingleIdle ==
    /\ sreq = [text |-> None, file |-> None]
    /\ sgen = CallRaises
    /\ scontent = <<>>
    /\ scalls = 0
    /\ sresp = NoResponse
    /\ spc = "idle"

\* the texts form field: absent, "", no JSON, JSON that is no list, or a list
TextsField(kind, elems) == [kind |-> kind, elems |-> elems]

BatchIdle ==
    /\ breq = [texts |-> TextsField("absent", <<>>), files |-> None]
    /\ bitems = <<>> /\ bi = 0 /\ bk = 0 /\ bresults = <<>> /\ boutcomes = <<>>
    /\ breads = 0 /\ bresp = NoResponse /\ bpc = "idle"

(***************************************************************************)
(* Inputs of the cleaning runs                                             *)
(***************************************************************************)
MaxSegs == 4

Segments ==
    { <<"#">>, <<"D","e">>, <<":">>, <<"\n">>, <<">">>,
      <<"h","e","l","l","o"," ","w","o","r","l","d">>,
      <<"h","t","t","p",":","/","/","x",".","y">>,
      <<"<","b","r",">">> }

RECURSIVE Concat(_)
Concat(ss) == IF ss = <<>> THEN <<>> ELSE Head(ss) \o Concat(Tail(ss))

RawTexts == {Concat(ss) : ss \in UNION {[1..n -> Segments] : n \in 0..MaxSegs}}

\* what BeautifulSoup may hand back for a text with markup
Soups ==
    { <<>>,
      <<"h","e","l","l","o"," ","w","o","r","l","d">>,
      <<"#","D","e",":"," ","h","e","l","l","o"," ","w","o","r","l","d">> }

CleanInit ==
    /\ DecodeIdle /\ ClassifyIdle /\ SingleIdle /\ BatchIdle
    /\ raw \in RawTexts
    /\ soup \in (IF HasMarkup(raw) THEN Soups ELSE {NoSoup})
    /\ once = <<>>
    /\ twice = <<>>
    /\ cpc = "start"

\* the first pass
CleanOnce ==
    /\ cpc = "start"
    /\ once' = clean_email_text(raw, soup)
    /\ cpc' = "once"
    /\ UNCHANGED <<raw, soup, twice>>
    /\ UNCHANGED <<decodeVars, classifyVars, singleVars, batchVars>>

\* the second pass, over the output of the first
CleanTwice ==
    /\ cpc = "once"
    /\ twice' = clean_email_text(once, NoSoup)
    /\ cpc' = "twice"
    /\ UNCHANGED <<raw, soup, once>>
    /\ UNCHANGED <<decodeVars, classifyVars, singleVars, batchVars>>

CleanNext == CleanOnce \/ CleanTwice

SpecClean == CleanInit /\ [][CleanNext]_vars

\* C6 (original statement): a second pass over a non-empty cleaned text
\* returns that text unchanged.
C6_Idempotent == (cpc = "twice" /\ once # <<>>) => twice = once

\* C6 (amended): a second pass over a non-empty cleaned text returns it
\* unchanged unless the cleaned text itself matches the header-line pattern,
\* and then the second pass returns the empty string.
C6_IdempotentUnlessHeader ==
    (cpc = "twice" /\ once # <<>>) =>
        IF HEADER_RE(once) THEN twice = <<>> ELSE twice = once

C6_Witness == cpc = "twice" /\ once # <<>> /\ once # raw /\ twice = once

(***************************************************************************)
(* Inputs of the decoding runs                                             *)
(***************************************************************************)
MaxPages == 2
MaxPad == 1
MaxInvalid == 1

Rep(x, n) == [i \in 1..n |-> x]

\* leading blanks, a body of n bytes "A" (or "A", blanks, "A"), bytes 0xFF
\* that are no UTF-8, trailing blanks
FileData ==
    { Rep(32, pad) \o (IF inner /\ n >= 2
                       THEN <<65>> \o Rep(32, n - 2) \o <<65>>
                       ELSE Rep(65, n))
                   \o Rep(255, bad) \o Rep(32, pad) :
        pad \in 0..MaxPad,
        n \in {0, PDF_MIN_TEXT - 1, PDF_MIN_TEXT, PDF_MIN_TEXT + 1},
        bad \in 0..MaxInvalid,
        inner \in BOOLEAN }

PageTexts == {None, Some(<<" ">>), Some(<<"P">>)}

PyPdfOutcomes ==
    {[threw |-> TRUE]} \cup
    {[threw |-> FALSE, pages |-> ps] :
        ps \in UNION {[1..n -> PageTexts] : n \in 0..MaxPages}}

PdfMinerOutcomes ==
    {[threw |-> TRUE]} \cup
    {[threw |-> FALSE, out |-> o] : o \in {None, Some(<<" ","\n">>), Some(<<"M">>)}}

FileNames == { <<"a">> \o DotPdf, <<"A",".","P","D","F">>, <<"a">> \o DotTxt }

DecodeInit ==
    /\ CleanIdle /\ ClassifyIdle /\ SingleIdle /\ BatchIdle
    /\ fname \in FileNames
    /\ fdata \in FileData
    /\ flib \in [pypdf : PyPdfOutcomes, pdfminer : PdfMinerOutcomes]
    /\ fresult = Returned(<<>>)
    /\ fpc = "start"

Decode ==
    /\ fpc = "start"
    /\ fresult' = read_file_bytes_to_text(fname, fdata, flib)
    /\ fpc' = "done"
    /\ UNCHANGED <<fname, fdata, flib>>
    /\ UNCHANGED <<cleanVars, classifyVars, singleVars, batchVars>>

DecodeNext == Decode

SpecDecode == DecodeInit /\ [][DecodeNext]_vars

\* the four strategies of read_pdf in order: whether each is accepted, and
\* the text it produced
Strategy(k) ==
    CASE k = 1 -> [accepted |-> ~flib.pypdf.threw
                                /\ \E i \in 1..Len(JoinPages(flib.pypdf.pages)) :
                                       ~IsSpace(JoinPages(flib.pypdf.pages)[i]),
                   text |-> IF flib.pypdf.threw THEN <<>> ELSE JoinPages(flib.pypdf.pages)]
      [] k = 2 -> [accepted |-> ~flib.pdfminer.threw
                                /\ \E i \in 1..Len(OrEmpty(flib.pdfminer.out)) :
                                       ~IsSpace(OrEmpty(flib.pdfminer.out)[i]),
                   text |-> IF flib.pdfminer.threw THEN <<>> ELSE OrEmpty(flib.pdfminer.out)]
      [] k = 3 -> [accepted |-> Len(Strip(DecodeUtf8Ignore(fdata))) > PDF_MIN_TEXT,
                   text |-> DecodeUtf8Ignore(fdata)]
      [] k = 4 -> [accepted |-> Len(Strip(DecodeLatin1(fdata))) > PDF_MIN_TEXT,
                   text |-> DecodeLatin1(fdata)]

\* C10: read_file_bytes_to_text never raises, and for a .pdf filename (in any
\* letter case) it returns the text of the first accepted strategy, in the
\* order PyPDF2, pdfminer, UTF-8, Latin-1, or the empty string when none is
\* accepted.  Strategies 1-2 are accepted when their text has a non-whitespace
\* character; strategies 3-4 when the text, trimmed of leading and trailing
\* whitespace, is longer than 100 characters.
C10_PdfFallbackChain ==
    fpc = "done" =>
        /\ ~fresult.raised
        /\ EndsWith(Lower(fname), DotPdf) =>
              IF \E k \in 1..4 : Strategy(k).accepted
              THEN \E k \in 1..4 :
                      /\ Strategy(k).accepted
                      /\ \A j \in 1..(k - 1) : ~Strategy(j).accepted
                      /\ fresult.value = Strategy(k).text
              ELSE fresult.value = <<>>

\* the first extractor threw, the second gave nothing, UTF-8 decoding fell
\* short of the threshold and Latin-1 decoding was returned
C10_Witness ==
    /\ fpc = "done"
    /\ EndsWith(Lower(fname), DotPdf)
    /\ flib.pypdf.threw
    /\ ~Strategy(2).accepted
    /\ ~Strategy(3).accepted
    /\ Strategy(4).accepted
    /\ ~fresult.raised
    /\ fresult.value = DecodeLatin1(fdata)

(***************************************************************************)
(* Inputs of the classification runs                                       *)
(***************************************************************************)
MaxTokens == 3

CategoryValues ==
    {Absent, JStr(S_Produtivo), JStr(S_Improdutivo), JStr(S_status), JNum(5), JNull,
     JList(FALSE)}
IntentValues ==
    {Absent, JStr(S_status), JStr(<<" ","D","U","V","I","D","A"," ">>), JStr(<<"r","a","n","d","o","m">>), JStr(<<>>), JNum(0),
     JNum(5), JNull, JBool(TRUE), JList(TRUE), JList(FALSE), JObj(FALSE)}
ConfidenceValues ==
    {Absent, JNum(-50), JNum(0), JNum(93), JNum(100), JNum(150), JStr(<<"0",".","5">>),
     JStr(<<"h","i","g","h">>), JNull, JBool(TRUE), JList(FALSE)}
ReplyValues ==
    {Absent, JStr(<<" ","O","k","!"," ">>), JStr(<<" "," ">>), JStr(<<>>), JNum(5), JNull, JList(FALSE)}

Members ==
    [category : CategoryValues, intent : IntentValues,
     confidence : ConfidenceValues, suggested_reply : ReplyValues]

Tokens == {"{", "}", "m", "w"}
Texts == UNION {[1..n -> Tokens] : n \in 0..MaxTokens}

TextAttrs ==
    {[kind |-> "raises"], [kind |-> "none"]} \cup {[kind |-> "text", tokens |-> t] : t \in Texts}

Responses ==
    {TextResponse(<<"{", "m", "}">>, m) : m \in Members}
    \cup {TextResponse(t, GoodMembers) : t \in Texts}
    \cup {[call |-> "ok", text |-> t, part |-> p, members |-> GoodMembers] :
              t \in {[kind |-> "raises"], [kind |-> "none"], [kind |-> "text", tokens |-> <<>>]},
              p \in TextAttrs}
    \cup {CallRaises}

ClassifyInit ==
    /\ CleanIdle /\ DecodeIdle /\ SingleIdle /\ BatchIdle
    /\ gen \in Responses
    /\ cresult = Raised("pending")
    /\ kpc = "start"

Classify ==
    /\ kpc = "start"
    /\ cresult' = classify_with_gemini(gen)
    /\ kpc' = "done"
    /\ UNCHANGED gen
    /\ UNCHANGED <<cleanVars, decodeVars, singleVars, batchVars>>

ClassifyNext == Classify

SpecClassify == ClassifyInit /\ [][ClassifyNext]_vars

\* a JSON object was parsed from the text of the response
Parsed(r) ==
    /\ r.call = "ok"
    /\ ~OutputText(r).raised
    /\ OutputText(r).value.kind = "text"
    /\ ~parse_json_strict(OutputText(r).value.tokens, r.members).raised

\* C4: once a JSON object was parsed from the model's text, the call does not
\* raise and returns a category that is Produtivo or Improdutivo, one of the
\* seven intents, a numeric confidence and a non-empty suggested reply.
C4_NormalizationNeverRaises ==
    (kpc = "done" /\ Parsed(gen)) =>
        /\ ~cresult.raised
        /\ cresult.value.category \in Categories
        /\ cresult.value.metadata.intent \in Intents
        /\ cresult.value.confidence \in Int
        /\ cresult.value.suggested_reply # <<>>

\* C5: every result classify_with_gemini returns has a confidence in [0, 1]
\* (0..100 hundredths).
C5_ConfidenceInUnitInterval ==
    (kpc = "done" /\ ~cresult.raised) => cresult.value.confidence \in 0..100

(***************************************************************************)
(* Single analyze (analyze)                                                *)
(***************************************************************************)
HttpError(status, detail) == [status |-> status, detail |-> detail]
\* an exception no handler catches: the framework answers 500
Unhandled(e) == [status |-> 500, error |-> e]
JsonResponse(body) == [status |-> 200, body |-> body]

\* name.lower().endswith((".pdf", ".txt"))
SupportedName(name) == EndsWith(Lower(name), DotPdf) \/ EndsWith(Lower(name), DotTxt)

\* lines 278-281 with the empty-content check left out
AfterRawUnchecked(text) ==
    LET content == clean_email_text(text, NoSoup)
    IN  [content |-> content, calls |-> scalls + 1, resp |-> NoResponse, pc |-> "classifying"]

\* lines 278-281: clean, refuse an empty content, else call the classifier
AfterRaw(text) ==
    LET content == clean_email_text(text, NoSoup)
    IN  IF content = <<>>
        THEN [content |-> content, calls |-> scalls,
              resp |-> HttpError(400, "Conteudo vazio."), pc |-> "done"]
        ELSE [content |-> content, calls |-> scalls + 1,
              resp |-> NoResponse, pc |-> "classifying"]

\* lines 268-270, 276-281: the request arrives
AnalyzeStart ==
    /\ spc = "start"
    /\ IF OrEmpty(sreq.text) = <<>> /\ sreq.file.none
       THEN /\ sresp' = HttpError(400, "Envie um texto ou um arquivo .txt/.pdf.")
            /\ spc' = "done"
            /\ UNCHANGED <<scontent, scalls>>
       ELSE IF ~sreq.file.none
            THEN /\ spc' = "reading"
                 /\ UNCHANGED <<scontent, scalls, sresp>>
            ELSE LET n == AfterRaw(OrEmpty(sreq.text))
                 IN  /\ scontent' = n.content
                     /\ scalls' = n.calls
                     /\ sresp' = n.resp
                     /\ spc' = n.pc
    /\ UNCHANGED <<sreq, sgen>>
    /\ UNCHANGED <<cleanVars, decodeVars, classifyVars, batchVars>>

\* lines 271-281: file.read() has returned
AnalyzeFileRead ==
    /\ spc = "reading"
    /\ LET file     == sreq.file.text
           filename == OrEmpty(file.filename)
       IN  IF ~SupportedName(filename)
           THEN /\ sresp' = HttpError(415, "Formato nao suportado. Envie .txt ou .pdf.")
                /\ spc' = "done"
                /\ UNCHANGED <<scontent, scalls>>
           ELSE LET n == AfterRaw(read_file_bytes_to_text(filename, file.data, file.lib).value)
                IN  /\ scontent' = n.content
                    /\ scalls' = n.calls
                    /\ sresp' = n.resp
                    /\ spc' = n.pc
    /\ UNCHANGED <<sreq, sgen>>
    /\ UNCHANGED <<cleanVars, decodeVars, classifyVars, batchVars>>

\* lines 281-282: the classifier has returned or raised; nothing catches
AnalyzeClassified ==
    /\ spc = "classifying"
    /\ LET r == classify_with_gemini(sgen)
       IN  sresp' = IF r.raised THEN Unhandled(r.error) ELSE JsonResponse(r.value)
    /\ spc' = "done"
    /\ UNCHANGED <<sreq, sgen, scontent, scalls>>
    /\ UNCHANGED <<cleanVars, decodeVars, classifyVars, batchVars>>

SingleNext == AnalyzeStart \/ AnalyzeFileRead \/ AnalyzeClassified

(***************************************************************************)
(* Batch analyze (analyze_batch)                                           *)
(***************************************************************************)
\* str(i) for one digit
Str(i) == <<DigitChars[i + 1]>>

\* f"text-{i}"
TextId(i) == <<"t","e","x","t","-">> \o Str(i)

\* f"file-{i}"
FileId(i) == <<"f","i","l","e","-">> \o Str(i)

\* line 291: if texts
TextsTruthy(texts) == texts.kind \notin {"absent", "empty"}

\* lines 292-300 without the isinstance check
TextsErrorJsonOnly(texts) == texts.kind = "malformed"

\* lines 292-300: json.loads raises, or its value is no list
TextsError(texts) == texts.kind \in {"malformed", "nonlist"}

\* lines 302-304: an item for every element that is a str with a non-blank
\* text; its content is whatever clean_email_text returns
TextItems(arr) ==
    LET Admit(k) == arr[k].t = "str" /\ Strip(arr[k].s) # <<>>
        idx == SelectSeq([k \in 1..Len(arr) |-> k], Admit)
    IN  [n \in 1..Len(idx) |->
            [id |-> TextId(idx[n] - 1), content |-> clean_email_text(arr[idx[n]].s, NoSoup)]]

\* line 309: f.filename or f"file-{i}"
FileName(f, i) == IF OrEmpty(f.filename) = <<>> THEN FileId(i) ELSE f.filename.text

\* lines 308-329, one file: whether f.read() was called and the item built,
\* if any
FileStep(f, i) ==
    LET name == FileName(f, i)
    IN  IF ~SupportedName(name) THEN [read |-> FALSE, item |-> None]
        ELSE IF f.readRaises THEN [read |-> TRUE, item |-> None]
        ELSE IF f.data = <<>> THEN [read |-> TRUE, item |-> None]
        ELSE LET content == read_file_bytes_to_text(name, f.data, f.lib).value
                 cleaned == clean_email_text(content, NoSoup)
             IN  IF content = <<>> \/ cleaned = <<>>
                 THEN [read |-> TRUE, item |-> None]
                 ELSE [read |-> TRUE, item |-> Some([id |-> name, content |-> cleaned])]

\* items.append(item) done at the wrong end
PrependItem(items, item) == <<item>> \o items

\* line 321: items.append(item)
AppendItem(items, item) == Append(items, item)

ErrorPrefix == <<"E","r","r","o"," ","a","o"," ","p","r","o","c","e","s","s","a","r",":"," ">>

\* lines 347-353 with a fixed reply in place of the error description
DegradedNoDescription(id, e) ==
    [id |-> id, category |-> S_Improdutivo, confidence |-> 0,
     suggested_reply |-> DEFAULT_REPLY, metadata |-> [intent |-> S_outros]]

\* lines 347-353: the placeholder result of an item that failed
Degraded(id, e) ==
    [id |-> id, category |-> S_Improdutivo, confidence |-> 0,
     suggested_reply |-> ErrorPrefix \o <<e>>, metadata |-> [intent |-> S_outros]]

\* line 343: result["id"] = item["id"]
WithId(result, id) ==
    [id |-> id, category |-> result.category, confidence |-> result.confidence,
     suggested_reply |-> result.suggested_reply, metadata |-> result.metadata]

\* lines 341-353 with the placeholder left without the item's id
ItemResultNoId(item, outcome) ==
    IF outcome.raised THEN Degraded(<<>>, outcome.error) ELSE WithId(outcome.value, item.id)

\* lines 341-353: the result of one item, from what the classifier did
ItemResult(item, outcome) ==
    IF outcome.raised THEN Degraded(item.id, outcome.error) ELSE WithId(outcome.value, item.id)

NoValidItems == HttpError(400, "Nenhum item valido para analisar.")

\* lines 289-305, 331-337: the request arrives; the texts field is handled
BatchStart ==
    /\ bpc = "start"
    /\ IF TextsTruthy(breq.texts) /\ TextsError(breq.texts)
       THEN /\ bresp' = HttpError(400, "Campo 'texts' deve ser JSON valido (lista de strings).")
            /\ bpc' = "done"
            /\ UNCHANGED <<bitems, bi, bk>>
       ELSE LET items == IF TextsTruthy(breq.texts) THEN TextItems(breq.texts.elems) ELSE <<>>
            IN  /\ bitems' = items
                /\ IF OrEmpty(breq.files) # <<>>
                   THEN bpc' = "files" /\ bi' = 1 /\ UNCHANGED <<bk, bresp>>
                   ELSE IF items = <<>>
                        THEN bpc' = "done" /\ bresp' = NoValidItems /\ UNCHANGED <<bi, bk>>
                        ELSE bpc' = "classify" /\ bk' = 1 /\ UNCHANGED <<bi, bresp>>
    /\ UNCHANGED <<breq, bresults, boutcomes, breads>>
    /\ UNCHANGED <<cleanVars, decodeVars, classifyVars, singleVars>>

\* lines 307-337: one turn of the loop over files
BatchFile ==
    /\ bpc = "files"
    /\ LET step  == FileStep(breq.files.text[bi], bi - 1)
           items == IF step.item.none THEN bitems ELSE AppendItem(bitems, step.item.text)
       IN  /\ bitems' = items
           /\ breads' = IF step.read THEN breads + 1 ELSE breads
           /\ IF bi < Len(breq.files.text)
              THEN bi' = bi + 1 /\ UNCHANGED <<bk, bresp, bpc>>
              ELSE IF items = <<>>
                   THEN bpc' = "done" /\ bresp' = NoValidItems /\ UNCHANGED <<bi, bk>>
                   ELSE bpc' = "classify" /\ bk' = 1 /\ UNCHANGED <<bi, bresp>>
    /\ UNCHANGED <<breq, bresults, boutcomes>>
    /\ UNCHANGED <<cleanVars, decodeVars, classifyVars, singleVars>>

\* lines 340-355: one turn of the loop over items; g is what the model does
\* for this item
BatchClassifyWith(g) ==
    /\ bpc = "classify"
    /\ LET outcome == classify_with_gemini(g)
           results == Append(bresults, ItemResult(bitems[bk], outcome))
       IN  /\ bresults' = results
           /\ boutcomes' = Append(boutcomes, outcome)
           /\ IF bk < Len(bitems)
              THEN bk' = bk + 1 /\ UNCHANGED <<bresp, bpc>>
              ELSE /\ bresp' = JsonResponse([count |-> Len(results), results |-> results])
                   /\ bpc' = "done"
                   /\ UNCHANGED bk
    /\ UNCHANGED <<breq, bitems, bi, breads>>
    /\ UNCHANGED <<cleanVars, decodeVars, classifyVars, singleVars>>

(***************************************************************************)
(* Inputs of the single analyze runs                                       *)
(***************************************************************************)
T_Thanks == <<"O","b","r","i","g","a","d","o"," ","p","e","l","a"," ","a","j","u","d","a","!">>
T_Short  == <<"o","i">>
T_HeaderOnly == <<"D","e",":"," ","a","n","a","\n",">"," ","o","i">>
T_Greeting == <<"F","e","l","i","z"," ","N","a","t","a","l",","," ","e","q","u","i","p","e","!">>
T_Contract == <<"S","e","g","u","e"," ","o"," ","c","o","n","t","r","a","t","o",".">>

F_Text == UploadFile(Some(<<"a",".","t","x","t">>), AsciiBytes(T_Greeting), NoPdfLib, FALSE)
F_ShortText == UploadFile(Some(<<"b",".","t","x","t">>), AsciiBytes(T_Short), NoPdfLib, FALSE)
F_Exe == UploadFile(Some(<<"c",".","e","x","e">>), AsciiBytes(T_Greeting), NoPdfLib, FALSE)
F_BadPdf == UploadFile(Some(<<"d",".","p","d","f">>), AsciiBytes(T_Short), NoPdfLib, FALSE)
F_Pdf ==
    UploadFile(Some(<<"E",".","P","D","F">>), AsciiBytes(T_Short),
               [pypdf |-> [threw |-> FALSE, pages |-> <<Some(T_Contract)>>],
                pdfminer |-> [threw |-> TRUE]], FALSE)
F_NoName == UploadFile(None, AsciiBytes(T_Greeting), NoPdfLib, FALSE)
F_Empty == UploadFile(Some(<<"g",".","t","x","t">>), <<>>, NoPdfLib, FALSE)
F_Unreadable == UploadFile(Some(<<"h",".","t","x","t">>), AsciiBytes(T_Greeting), NoPdfLib, TRUE)

SingleTexts == {None, Some(<<>>), Some(T_Short), Some(T_HeaderOnly), Some(T_Thanks)}
SingleFiles ==
    {None, Some(F_Text), Some(F_ShortText), Some(F_Exe), Some(F_BadPdf), Some(F_Pdf),
     Some(F_NoName), Some(F_Empty)}

G_Good == TextResponse(<<"w", "{", "m", "}">>, GoodMembers)
G_IntentNumber ==
    TextResponse(<<"{", "m", "}">>, [GoodMembers EXCEPT !.intent = JNum(5)])
G_NoJson == TextResponse(<<"w">>, GoodMembers)
G_OverConfident ==
    TextResponse(<<"{", "m", "}">>, [GoodMembers EXCEPT !.confidence = JNum(150)])

ModelBehaviours == {G_Good, G_IntentNumber, G_NoJson, G_OverConfident, CallRaises}

SingleInit ==
    /\ CleanIdle /\ DecodeIdle /\ ClassifyIdle /\ BatchIdle
    /\ sreq \in [text : SingleTexts, file : SingleFiles]
    /\ sgen \in ModelBehaviours
    /\ scontent = <<>>
    /\ scalls = 0
    /\ sresp = NoResponse
    /\ spc = "start"

SpecSingle == SingleInit /\ [][SingleNext]_vars

\* the raw text the request carries: the file's when there is a file
RawOf(req) ==
    IF req.file.none THEN OrEmpty(req.text)
    ELSE read_file_bytes_to_text(OrEmpty(req.file.text.filename), req.file.text.data,
                                 req.file.text.lib).value

NothingSupplied(req) == OrEmpty(req.text) = <<>> /\ req.file.none
BadExtension(req) == ~req.file.none /\ ~SupportedName(OrEmpty(req.file.text.filename))
EmptyContent(req) == clean_email_text(RawOf(req), NoSoup) = <<>>

\* C9: analyze calls the classifier at most once, and only with a non-empty
\* cleaned content of a request that passed validation; a request with
\* neither text nor file, with an unsupported file extension or with an empty
\* cleaned content ends in a client error without a call; and a failure of
\* the classifier ends the request in a failure response, not in a result.
C9_ClassifierOnlyAfterValidation ==
    /\ scalls <= 1
    /\ scalls = 1 =>
          /\ scontent # <<>>
          /\ ~NothingSupplied(sreq) /\ ~BadExtension(sreq) /\ ~EmptyContent(sreq)
    /\ (spc = "done" /\ (NothingSupplied(sreq) \/ BadExtension(sreq) \/ EmptyContent(sreq))) =>
          /\ sresp.status \in {400, 415}
          /\ scalls = 0
    /\ (spc = "done" /\ scalls = 1 /\ classify_with_gemini(sgen).raised) =>
          /\ sresp.status = 500
          /\ sresp = Unhandled(classify_with_gemini(sgen).error)

C9_Witness ==
    /\ spc = "done" /\ scalls = 1
    /\ ~sreq.file.none
    /\ classify_with_gemini(sgen).raised
    /\ sresp.status = 500

(***************************************************************************)
(* Inputs of the batch analyze runs                                        *)
(***************************************************************************)
MaxTexts == 2
MaxFiles == 2

TextElements == {JNum(5), JStr(<<" "," ">>), JStr(T_Short), JStr(T_Thanks)}

TextsFields ==
    {TextsField(k, <<>>) : k \in {"absent", "empty", "malformed", "nonlist"}}
    \cup {TextsField("list", es) : es \in UNION {[1..n -> TextElements] : n \in 0..MaxTexts}}

BatchFiles == {F_Text, F_ShortText, F_Exe, F_BadPdf, F_Pdf}

\* files the loop skips before or right after reading them
SkippedFiles == {F_NoName, F_Empty, F_Unreadable}

\* no files, up to MaxFiles files, or a skipped file alone or before a good one
FilesFields ==
    {None}
    \cup {Some(fs) : fs \in UNION {[1..n -> BatchFiles] : n \in 0..MaxFiles}}
    \cup {Some(<<f>>) : f \in SkippedFiles}
    \cup {Some(<<f, F_Text>>) : f \in SkippedFiles}

BatchBehaviours == {G_Good, CallRaises}

BatchInit ==
    /\ CleanIdle /\ DecodeIdle /\ ClassifyIdle /\ SingleIdle
    /\ breq \in [texts : TextsFields, files : FilesFields]
    /\ bitems = <<>> /\ bi = 0 /\ bk = 0 /\ bresults = <<>> /\ boutcomes = <<>>
    /\ breads = 0 /\ bresp = NoResponse /\ bpc = "start"

BatchClassify == \E g \in BatchBehaviours : BatchClassifyWith(g)

BatchNext == BatchStart \/ BatchFile \/ BatchClassify

SpecBatch == BatchInit /\ [][BatchNext]_vars

\* the submitted inputs in discovery order: the elements of texts, then the
\* files
Submitted(req) ==
    [k \in 1..Len(req.texts.elems) |-> [src |-> "text", pos |-> k - 1]]
    \o [k \in 1..Len(OrEmpty(req.files)) |-> [src |-> "file", pos |-> k - 1]]

TextAt(req, pos) == req.texts.elems[pos + 1]
FileAt(req, pos) == req.files.text[pos + 1]

\* the text a file decodes to, and what is left of it after cleaning
FileText(f, pos) == read_file_bytes_to_text(FileName(f, pos), f.data, f.lib).value
FileCleaned(f, pos) == clean_email_text(FileText(f, pos), NoSoup)

\* the sample files the code makes items of (a file without a name is
\* f"file-{i}" at every position i, which has no supported extension)
AdmittedFiles ==
    {f \in BatchFiles \cup SkippedFiles :
        /\ SupportedName(FileName(f, 0))
        /\ ~f.readRaises
        /\ FileCleaned(f, 0) # <<>>}

\* the submitted inputs the code makes items of
Admitted(req, e) ==
    IF e.src = "text"
    THEN TextAt(req, e.pos).t = "str" /\ Strip(TextAt(req, e.pos).s) # <<>>
    ELSE FileAt(req, e.pos) \in AdmittedFiles

IdOf(req, e) ==
    IF e.src = "text" THEN TextId(e.pos) ELSE FileName(FileAt(req, e.pos), e.pos)

ExpectedIds(req) ==
    LET Adm(e) == Admitted(req, e)
        es == SelectSeq(Submitted(req), Adm)
    IN  [k \in 1..Len(es) |-> IdOf(req, es[k])]

Ok == bpc = "done" /\ bresp.status = 200

\* C1: a batch with n >= 1 items does not fail whatever subset of the
\* classification calls fails: it returns n results and count = n; a failed
\* item's result is the placeholder (Improdutivo, 0.0, outros, the error
\* description) with that item's id; every other result is what the
\* classifier returned, plus the item's id.
C1_FailureIsolation ==
    (bpc = "done" /\ Len(bitems) >= 1) =>
        /\ bresp.status = 200
        /\ bresp.body.count = Len(bitems)
        /\ Len(bresp.body.results) = Len(bitems)
        /\ \A k \in 1..Len(bitems) :
              LET r == bresp.body.results[k]
                  o == boutcomes[k]
              IN  IF o.raised
                  THEN /\ r.id = bitems[k].id
                       /\ r.category = S_Improdutivo
                       /\ r.confidence = 0
                       /\ r.metadata.intent = S_outros
                       /\ r.suggested_reply = ErrorPrefix \o <<o.error>>
                  ELSE /\ r.id = bitems[k].id
                       /\ r.category = o.value.category
                       /\ r.confidence = o.value.confidence
                       /\ r.metadata = o.value.metadata
                       /\ r.suggested_reply = o.value.suggested_reply

\* three items, the second call failed, the other two succeeded
C1_Witness ==
    /\ Ok
    /\ Len(bitems) = 3
    /\ ~boutcomes[1].raised /\ boutcomes[2].raised /\ ~boutcomes[3].raised
    /\ bresp.body.results[2].confidence = 0

\* C2: the k-th result carries the id of the k-th item, and the items follow
\* discovery order: the text elements in submitted order, then the files in
\* submitted order, whichever calls fail.
C2_ResultOrder ==
    Ok => LET ids == ExpectedIds(breq)
          IN  /\ [k \in 1..Len(bresp.body.results) |-> bresp.body.results[k].id] = ids
              /\ [k \in 1..Len(bitems) |-> bitems[k].id] = ids

\* two text items and two file items with distinct names, one of them failed
C2_Witness ==
    /\ Ok
    /\ Len(bresp.body.results) = 4
    /\ bresp.body.results[3].id # bresp.body.results[4].id
    /\ \E k \in 1..4 : boutcomes[k].raised

\* C3: the items built from texts are exactly the non-blank strings whose
\* cleaned text is non-empty, so no item has an empty content.
C3_NoEmptyTextItem ==
    \A k \in 1..Len(bitems) : bitems[k].content # <<>>

\* C7: when texts is present and is no JSON or no list, the request ends in
\* a client error, and no file is read and no classification call is made.
C7_TextsCheckedBeforeFiles ==
    breq.texts.kind \in {"malformed", "nonlist"} =>
        /\ breads = 0
        /\ boutcomes = <<>>
        /\ bpc = "done" => bresp.status = 400

\* malformed texts beside a readable, supported file
C7_Witness ==
    /\ bpc = "done"
    /\ breq.texts.kind = "malformed"
    /\ OrEmpty(breq.files) # <<>>
    /\ Admitted(breq, [src |-> "file", pos |-> 0])
    /\ bresp.status = 400

\* the sample files that could be read, were supported and not empty, and
\* decoded or cleaned to nothing
FailedFiles ==
    {f \in BatchFiles \cup SkippedFiles :
        /\ SupportedName(FileName(f, 0))
        /\ ~f.readRaises
        /\ f.data # <<>>
        /\ FileCleaned(f, 0) = <<>>}

FailedFile(req, pos) == FileAt(req, pos) \in FailedFiles

IsDegraded(r) == r.confidence = 0 /\ StartsWith(r.suggested_reply, ErrorPrefix)

\* C8 (original statement): every input whose processing fails is visible in
\* the response: the request ends in an error, or the response holds a
\* degraded result for that input.
C8_NoErrorDropped ==
    Ok => \A pos \in 0..(Len(OrEmpty(breq.files)) - 1) :
              FailedFile(breq, pos) =>
                  \E k \in 1..Len(bresp.body.results) :
                      /\ bresp.body.results[k].id = FileName(FileAt(breq, pos), pos)
                      /\ IsDegraded(bresp.body.results[k])

\* C8 (amended): no classification error is dropped, and a request without
\* items ends in a client error; a file that is skipped has no result of its
\* own.
C8_ClassificationErrorsVisible ==
    bpc = "done" =>
        /\ bresp.status \in {200, 400}
        /\ Len(bitems) = 0 => bresp.status = 400
        /\ bresp.status = 200 =>
              /\ Len(bresp.body.results) = Len(ExpectedIds(breq))
              /\ \A k \in 1..Len(boutcomes) :
                    boutcomes[k].raised =>
                        /\ bresp.body.results[k].id = bitems[k].id
                        /\ bresp.body.results[k].suggested_reply
                               = ErrorPrefix \o <<boutcomes[k].error>>

\* a file that failed to decode beside an item whose classification failed
C8_Witness ==
    /\ Ok
    /\ \E pos \in 0..(Len(OrEmpty(breq.files)) - 1) : FailedFile(breq, pos)
    /\ \E k \in 1..Len(boutcomes) : boutcomes[k].raised
    /\ Len(bresp.body.results) < Len(Submitted(breq))

====
